---- MODULE Spec2Model ----
(***************************************************************************)
(* Model of MultiTimeframeSRFinder (src/app.py): support / resistance      *)
(* level detection over several timeframes.                                *)
(*                                                                         *)
(* Prices are Python floats in the source.  They are modelled as exact     *)
(* rationals [n, d] in lowest terms (d > 0), so sums, means, medians,      *)
(* products with the tolerance percentage and the weighted average are     *)
(* computed as the code computes them, without float rounding.             *)
(***************************************************************************)
EXTENDS Integers, Sequences, FiniteSets, TLC

(***************************************************************************)
(* Exact rational arithmetic standing for Python float arithmetic.         *)
(***************************************************************************)
Abs(x) == IF x < 0 THEN -x ELSE x

RECURSIVE GCD(_, _)
GCD(a, b) == IF b = 0 THEN a ELSE GCD(b, a % b)

Norm(n, d) ==
    LET s == IF d < 0 THEN -1 ELSE 1
        g == GCD(Abs(n), Abs(d))
    IN  [n |-> (s * n) \div g, d |-> (s * d) \div g]

R(x) == [n |-> x, d |-> 1]
RAdd(a, b) == Norm(a.n * b.d + b.n * a.d, a.d * b.d)
RSub(a, b) == Norm(a.n * b.d - b.n * a.d, a.d * b.d)
RMul(a, b) == Norm(a.n * b.n, a.d * b.d)
RDiv(a, b) == Norm(a.n * b.d, a.d * b.n)
RAbs(a) == [n |-> Abs(a.n), d |-> a.d]
RLe(a, b) == a.n * b.d <= b.n * a.d
RLt(a, b) == a.n * b.d < b.n * a.d

RECURSIVE RSum(_)
RSum(s) == IF s = <<>> THEN R(0) ELSE RAdd(Head(s), RSum(Tail(s)))

RECURSIVE ISum(_)
ISum(s) == IF s = <<>> THEN 0 ELSE Head(s) + ISum(Tail(s))

\* min(...) / max(...) over a non-empty collection of rationals
RMin(S) == CHOOSE x \in S : \A y \in S : RLe(x, y)
RMax(S) == CHOOSE x \in S : \A y \in S : RLe(y, x)

Range(s) == {s[i] : i \in 1..Len(s)}

(***************************************************************************)
(* Bounds of the model and the input domains.                              *)
(***************************************************************************)
MaxRows == 2            \* rows over all supplied timeframes together
MaxLen == 4             \* length of a price list clustered on its own

\* a missing value (float NaN): the rational 0/0
NaN == [n |-> 0, d |-> 0]
PriceSet == {100, 101, 103}

\* the dictionaries handed to the constructor, as their key order
TFOrders == {<<"1D">>, <<"1D", "1H">>, <<"4H", "1D">>, <<"15m">>}

\* tolerance_percentage argument (a percentage), min_touches argument
PctSet == {R(1), R(2)}
MinTouchesSet == {1, 2, 3}
ToleranceModes == {"current_price", "level_price", "atr_based"}
GroupingMethods == {"conservative", "aggressive"}
LevelTypes == {"Resistance", "Support"}

\* OHLC rows: Low <= High, Close at one end of the bar; one row with a
\* missing value, which dropna removes
GoodRows ==
    {[High |-> R(t[1]), Low |-> R(t[2]), Close |-> R(t[3])] :
        t \in {t \in PriceSet \X PriceSet \X PriceSet :
                            t[2] <= t[1] /\ t[3] \in {t[1], t[2]}}}
BadRows == {[High |-> NaN, Low |-> R(100), Close |-> R(100)]}
Rows == GoodRows \cup BadRows

RowSeqs(k) == UNION {[1..m -> Rows] : m \in 0..k}

(***************************************************************************)
(* State: the fields of one MultiTimeframeSRFinder and the locals of       *)
(* combine_multi_timeframe_levels, plus the position of the run.           *)
(***************************************************************************)
VARIABLES
    timeframe_data,         \* self.timeframe_data: sequence of [tf, rows] (dict order)
    min_touches,            \* self.min_touches
    tolerance_percentage,   \* self.tolerance_percentage (argument / 100)
    grouping_method,        \* self.grouping_method
    tolerance_mode,         \* self.tolerance_mode
    current_price,          \* self.current_price
    base_tolerance,         \* self.base_tolerance
    pc,                     \* "new", "ready", "grouped", "done", "error"
    tf_done,                \* timeframes whose levels were added to all_levels
    all_levels,             \* local all_levels of combine_multi_timeframe_levels
    grouped_levels,         \* local grouped_levels
    strong_levels,          \* local strong_levels (the returned list)
    tol_log,                \* tolerances the scans compared against (TolEntry records)
    input_prices,           \* a price list handed to group_prices_* on its own
    clusters,               \* what each such call returned, per finder configuration
    analysis                \* what analyze_missing_levels returned last

vars == <<timeframe_data, min_touches, tolerance_percentage, grouping_method,
          tolerance_mode, current_price, base_tolerance, pc, tf_done,
          all_levels, grouped_levels, strong_levels, tol_log, input_prices, clusters,
          analysis>>

None == "None"

\* a plausible slip: the weights counted from 0
timeframe_weights_from_zero == [tf \in {"1D", "4H", "1H"} |->
                                  CASE tf = "1D" -> 2 [] tf = "4H" -> 1 [] tf = "1H" -> 0]

\* self.timeframe_weights, line 26, and the .get(timeframe, 1) lookup of line 195
timeframe_weights == [tf \in {"1D", "4H", "1H"} |->
                        CASE tf = "1D" -> 3 [] tf = "4H" -> 2 [] tf = "1H" -> 1]
\* a plausible slip: .get(timeframe) with a default of 0
WeightOf_default_zero(timeframe) ==
    IF timeframe \in DOMAIN timeframe_weights THEN timeframe_weights[timeframe] ELSE 0

WeightOf(timeframe) ==
    IF timeframe \in DOMAIN timeframe_weights THEN timeframe_weights[timeframe] ELSE 1

\* df.dropna(): rows holding a missing value are removed
HasNa(row) == row.High = NaN \/ row.Low = NaN \/ row.Close = NaN
DropNa(rows) == SelectSeq(rows, LAMBDA r : ~HasNa(r))

\* every supplied dictionary: a key order and rows for each key, at most k rows in all
RECURSIVE DataFor(_, _)
DataFor(order, k) ==
    IF order = <<>> THEN {<<>>}
    ELSE UNION {{<<[tf |-> Head(order), rows |-> r]>> \o rest :
                    rest \in DataFor(Tail(order), k - Len(r))} : r \in RowSeqs(k)}

InputData == UNION {DataFor(o, MaxRows) : o \in TFOrders}

\* the dictionary of analyze_missing_levels before the method has run; the
\* keys the code adds only when it makes a suggestion are present throughout
\* and flagged by has_suggestion
NoAnalysis ==
    [ran |-> FALSE, range_start |-> NaN, range_end |-> NaN, prices_in_range |-> <<>>,
     current_tolerance |-> NaN,
     has_suggestion |-> FALSE, suggested_tolerance_percentage |-> NaN,
     min_distance |-> NaN, unique_price_count |-> 0, applied |-> FALSE]

\* __init__, lines 21-26: the fields are assigned; prepare_data (line 27) follows
Init ==
    /\ timeframe_data \in InputData
    /\ min_touches \in MinTouchesSet
    /\ tolerance_percentage \in {RDiv(p, R(100)) : p \in PctSet}
    /\ grouping_method \in GroupingMethods
    /\ tolerance_mode \in ToleranceModes
    /\ current_price = None
    /\ base_tolerance = None
    /\ pc = "new"
    /\ tf_done = 0
    /\ all_levels = <<>>
    /\ grouped_levels = <<>>
    /\ strong_levels = <<>>
    /\ tol_log = {}
    /\ input_prices = <<>>
    /\ clusters = <<>>
    /\ analysis = NoAnalysis

\* a plausible slip: the fraction taken for a percent figure
base_tolerance_of_percent(price, percentage) == RDiv(RMul(price, percentage), R(100))

\* line 75
base_tolerance_of(price, percentage) == RMul(price, percentage)

\* prepare_data, lines 29-75: every frame is replaced by its dropna copy; the
\* last Close of the first timeframe becomes current_price.  iloc[-1] on an
\* empty frame raises IndexError, which leaves the constructor.
PreparedData == [i \in 1..Len(timeframe_data) |->
                    [tf |-> timeframe_data[i].tf, rows |-> DropNa(timeframe_data[i].rows)]]

prepare_data ==
    /\ pc = "new"
    /\ timeframe_data' = PreparedData
    /\ LET primary == PreparedData[1].rows
       IN  IF primary = <<>>
           THEN /\ pc' = "error"
                /\ UNCHANGED <<current_price, base_tolerance>>
           ELSE /\ current_price' = primary[Len(primary)].Close
                /\ base_tolerance' = base_tolerance_of(current_price', tolerance_percentage)
                /\ pc' = "ready"
    /\ UNCHANGED <<min_touches, tolerance_percentage, grouping_method, tolerance_mode,
                   tf_done, all_levels, grouped_levels, strong_levels, tol_log,
                   input_prices, clusters, analysis>>

\* plausible slips in get_tolerance_for_price: the mode is not looked at and
\* the tested price is always scaled; the mode is not looked at and the base
\* tolerance is always returned; the test is written as in the scans, on
\* "level_price"
get_tolerance_scaled(price) == RMul(price, tolerance_percentage)

get_tolerance_base(price) == base_tolerance

get_tolerance_as_scans(price) ==
    IF tolerance_mode = "level_price"
    THEN RMul(price, tolerance_percentage)
    ELSE base_tolerance

\* get_tolerance_for_price, lines 83-88
get_tolerance_for_price(price) ==
    IF tolerance_mode = "current_price"
    THEN base_tolerance
    ELSE RMul(price, tolerance_percentage)

\* sorted(...) of a list of prices: ascending, stable
RECURSIVE InsertAsc(_, _)
InsertAsc(x, s) ==
    IF s = <<>> THEN <<x>>
    ELSE IF RLt(x, Head(s)) THEN <<x>> \o s
    ELSE <<Head(s)>> \o InsertAsc(x, Tail(s))

RECURSIVE SortedPrices(_)
SortedPrices(s) ==
    IF s = <<>> THEN <<>>
    ELSE InsertAsc(s[Len(s)], SortedPrices(SubSeq(s, 1, Len(s) - 1)))

\* [p for p in prices if p is not None and not pd.isna(p)], lines 96 and 135
NotMissing(prices) == SelectSeq(prices, LAMBDA p : p # NaN)

Mean(group) == RDiv(RSum(group), R(Len(group)))

\* a plausible slip: the comparison of the admission test is turned round
admits_inverted(distance, tolerance) == RLe(tolerance, distance)

\* the admission test "distance <= tolerance" of lines 113, 150 and 283
admits(distance, tolerance) == RLe(distance, tolerance)

\* one record of tol_log: the candidate price, the value handed to
\* get_tolerance_for_price (NaN when base_tolerance is read directly) and
\* the tolerance the candidate's distance is compared against
TolEntry(stage, price, ref, tol) ==
    [stage |-> stage, price |-> price, ref |-> ref, tol |-> tol]

\* the loop of group_prices_conservative, lines 103-121
RECURSIVE conservative_scan(_, _, _, _)
conservative_scan(rest, groups, current_group, tols) ==
    IF rest = <<>>
    THEN [groups |-> Append(groups, current_group), tols |-> tols]
    ELSE LET price == Head(rest)
             group_avg == Mean(current_group)
             tolerance == IF tolerance_mode = "level_price"
                          THEN get_tolerance_for_price(group_avg)
                          ELSE base_tolerance
             min_distance == RMin({RAbs(RSub(price, current_group[k])) :
                                      k \in 1..Len(current_group)})
             entry == TolEntry("series", price,
                               IF tolerance_mode = "level_price" THEN group_avg ELSE NaN,
                               tolerance)
         IN  IF admits(min_distance, tolerance)
             THEN conservative_scan(Tail(rest), groups, Append(current_group, price),
                                    tols \cup {entry})
             ELSE conservative_scan(Tail(rest), Append(groups, current_group), <<price>>,
                                    tols \cup {entry})

\* the loop of group_prices_aggressive, lines 142-158
RECURSIVE aggressive_scan(_, _, _, _)
aggressive_scan(rest, groups, current_group, tols) ==
    IF rest = <<>>
    THEN [groups |-> Append(groups, current_group), tols |-> tols]
    ELSE LET price == Head(rest)
             group_center == Mean(current_group)
             tolerance == IF tolerance_mode = "level_price"
                          THEN get_tolerance_for_price(group_center)
                          ELSE base_tolerance
             entry == TolEntry("series", price,
                               IF tolerance_mode = "level_price" THEN group_center ELSE NaN,
                               tolerance)
         IN  IF admits(RAbs(RSub(price, group_center)), tolerance)
             THEN aggressive_scan(Tail(rest), groups, Append(current_group, price),
                                  tols \cup {entry})
             ELSE aggressive_scan(Tail(rest), Append(groups, current_group), <<price>>,
                                  tols \cup {entry})

\* the groups (and the tolerances used) of one price list, lines 92-121 / 131-158
NoScan == [groups |-> <<>>, tols |-> {}]

\* a plausible slip: the admission test of the aggressive scan (distance to
\* the group average) copied into the conservative one
conservative_groups_by_average(prices) ==
    LET sorted_prices == SortedPrices(NotMissing(prices))
    IN  IF sorted_prices = <<>> THEN NoScan
        ELSE aggressive_scan(Tail(sorted_prices), <<>>, <<Head(sorted_prices)>>, {})

conservative_groups(prices) ==
    LET sorted_prices == SortedPrices(NotMissing(prices))
    IN  IF sorted_prices = <<>> THEN NoScan
        ELSE conservative_scan(Tail(sorted_prices), <<>>, <<Head(sorted_prices)>>, {})

\* a plausible slip: the admission test of the conservative scan (distance to
\* the nearest member) copied into the aggressive one
aggressive_groups_by_nearest(prices) ==
    LET sorted_prices == SortedPrices(NotMissing(prices))
    IN  IF sorted_prices = <<>> THEN NoScan
        ELSE conservative_scan(Tail(sorted_prices), <<>>, <<Head(sorted_prices)>>, {})

aggressive_groups(prices) ==
    LET sorted_prices == SortedPrices(NotMissing(prices))
    IN  IF sorted_prices = <<>> THEN NoScan
        ELSE aggressive_scan(Tail(sorted_prices), <<>>, <<Head(sorted_prices)>>, {})

\* a plausible slip: the mean taken for groups of every size
Median_as_mean(group) == Mean(group)

\* np.median of a group
Median(group) ==
    LET s == SortedPrices(group)
        m == Len(s)
    IN  IF m % 2 = 1 THEN s[(m + 1) \div 2]
        ELSE RDiv(RAdd(s[m \div 2], s[m \div 2 + 1]), R(2))

\* convert_groups_to_levels, lines 166-191 (price_range, a display string, is left out)
level_of_group(group, level_type, timeframe, weight) ==
    LET level_price == IF Len(group) >= 3 THEN Median(group) ELSE Mean(group)
    IN  [level |-> level_price,
         type |-> level_type,
         touches |-> Len(group),
         timeframe |-> timeframe,
         weight |-> weight,
         weighted_touches |-> Len(group) * weight,
         original_prices |-> group,
         tolerance_used |-> get_tolerance_for_price(level_price),
         price_spread |-> IF Len(group) > 1
                          THEN RSub(RMax(Range(group)), RMin(Range(group)))
                          ELSE R(0)]

\* a plausible slip: len(group) >= 2 at line 170, so one-price groups are lost
convert_groups_to_levels_multi(groups, level_type, timeframe, weight) ==
    LET kept == SelectSeq(groups, LAMBDA g : Len(g) >= 2)
    IN  [i \in 1..Len(kept) |-> level_of_group(kept[i], level_type, timeframe, weight)]

convert_groups_to_levels(groups, level_type, timeframe, weight) ==
    [i \in 1..Len(groups) |-> level_of_group(groups[i], level_type, timeframe, weight)]

\* group_prices_conservative / group_prices_aggressive, lines 90-164
group_prices_conservative(prices, level_type, timeframe, weight) ==
    convert_groups_to_levels(conservative_groups(prices).groups, level_type, timeframe, weight)

group_prices_aggressive(prices, level_type, timeframe, weight) ==
    convert_groups_to_levels(aggressive_groups(prices).groups, level_type, timeframe, weight)

Column(rows, name) == [i \in 1..Len(rows) |-> rows[i][name]]

\* find_levels_for_timeframe, lines 193-224
find_levels_for_timeframe(timeframe, rows) ==
    LET weight == WeightOf(timeframe)
        high_prices == NotMissing(Column(rows, "High"))
        low_prices == NotMissing(Column(rows, "Low"))
    IN  IF rows = <<>> THEN <<>>
        ELSE IF high_prices = <<>> \/ low_prices = <<>> THEN <<>>
        ELSE IF grouping_method = "conservative"
             THEN group_prices_conservative(high_prices, "Resistance", timeframe, weight)
                  \o group_prices_conservative(low_prices, "Support", timeframe, weight)
             ELSE group_prices_aggressive(high_prices, "Resistance", timeframe, weight)
                  \o group_prices_aggressive(low_prices, "Support", timeframe, weight)

\* the tolerances the two scans of one timeframe compare against
series_tols(rows) ==
    LET high_prices == NotMissing(Column(rows, "High"))
        low_prices == NotMissing(Column(rows, "Low"))
    IN  IF rows = <<>> \/ high_prices = <<>> \/ low_prices = <<>> THEN {}
        ELSE IF grouping_method = "conservative"
             THEN conservative_groups(high_prices).tols \cup conservative_groups(low_prices).tols
             ELSE aggressive_groups(high_prices).tols \cup aggressive_groups(low_prices).tols

\* sorted(all_levels, key=lambda x: x['level']), line 276: ascending, stable
RECURSIVE InsertLevel(_, _)
InsertLevel(x, s) ==
    IF s = <<>> THEN <<x>>
    ELSE IF RLt(x.level, Head(s).level) THEN <<x>> \o s
    ELSE <<Head(s)>> \o InsertLevel(x, Tail(s))

RECURSIVE SortedLevels(_)
SortedLevels(s) ==
    IF s = <<>> THEN <<>>
    ELSE InsertLevel(s[Len(s)], SortedLevels(SubSeq(s, 1, Len(s) - 1)))

\* a plausible slip: all(...) written for any(...) at line 283
RECURSIVE similar_scan_all_members(_, _, _, _)
similar_scan_all_members(rest, groups, current_group, tols) ==
    IF rest = <<>>
    THEN [groups |-> Append(groups, current_group), tols |-> tols]
    ELSE LET level == Head(rest)
             tolerance == get_tolerance_for_price(level.level)
             entry == TolEntry("combine", level.level, level.level, tolerance)
         IN  IF \A k \in 1..Len(current_group) :
                    admits(RAbs(RSub(level.level, current_group[k].level)), tolerance)
             THEN similar_scan_all_members(Tail(rest), groups, Append(current_group, level),
                                           tols \cup {entry})
             ELSE similar_scan_all_members(Tail(rest), Append(groups, current_group),
                                           <<level>>, tols \cup {entry})

\* the loop of group_similar_levels, lines 280-290
RECURSIVE similar_scan(_, _, _, _)
similar_scan(rest, groups, current_group, tols) ==
    IF rest = <<>>
    THEN [groups |-> Append(groups, current_group), tols |-> tols]
    ELSE LET level == Head(rest)
             tolerance == get_tolerance_for_price(level.level)
             entry == TolEntry("combine", level.level, level.level, tolerance)
         IN  IF \E k \in 1..Len(current_group) :
                    admits(RAbs(RSub(level.level, current_group[k].level)), tolerance)
             THEN similar_scan(Tail(rest), groups, Append(current_group, level),
                               tols \cup {entry})
             ELSE similar_scan(Tail(rest), Append(groups, current_group), <<level>>,
                               tols \cup {entry})

\* group_similar_levels, lines 271-291
similar_groups(levels) ==
    IF levels = <<>> THEN NoScan
    ELSE LET sorted_levels == SortedLevels(levels)
         IN  similar_scan(Tail(sorted_levels), <<>>, <<Head(sorted_levels)>>, {})

\* a plausible slip: the append of line 290 after the loop is forgotten
group_similar_levels_no_last(levels) ==
    LET g == similar_groups(levels).groups
    IN  SubSeq(g, 1, Len(g) - 1)

\* a plausible slip: the guard of lines 273-274 is forgotten and the scan
\* starts from an empty current group
group_similar_levels_no_guard(levels) ==
    IF levels = <<>> THEN << <<>> >> ELSE similar_groups(levels).groups

group_similar_levels(levels) == similar_groups(levels).groups

\* iteration orders a set of the type strings can have: str hashes are salted
\* per interpreter process, so the order of set(types) is fixed within a
\* process but differs between processes
SetOrders == {<<"Resistance", "Support">>, <<"Support", "Resistance">>}

Count(types, t) == Cardinality({i \in 1..Len(types) : types[i] = t})

\* max(set(types), key=types.count), line 246: the first element of the
\* set's iteration order that no other element beats
final_type_of(types, order) ==
    LET present == SelectSeq(order, LAMBDA t : t \in Range(types))
        best == CHOOSE i \in 1..Len(present) :
                    /\ \A j \in 1..Len(present) :
                          Count(types, present[j]) <= Count(types, present[i])
                    /\ \A j \in 1..(i - 1) :
                          Count(types, present[j]) < Count(types, present[i])
    IN  present[best]

total_touches_of(group) == ISum([i \in 1..Len(group) |-> group[i].touches])
\* a plausible slip: the plain touches summed at line 239
total_weighted_touches_unweighted(group) == total_touches_of(group)

total_weighted_touches_of(group) == ISum([i \in 1..Len(group) |-> group[i].weighted_touches])

\* a plausible slip: the prices are weighted by the plain touch counts
weighted_sum_by_touches(group) ==
    RSum([i \in 1..Len(group) |-> RMul(group[i].level, R(group[i].touches))])

\* weighted_sum, line 242
weighted_sum_of(group) ==
    RSum([i \in 1..Len(group) |-> RMul(group[i].level, R(group[i].weighted_touches))])

\* the dictionary appended for one group, lines 242-266; source_group is not a
\* key of the code's dictionary: it records which element of grouped_levels
\* the dictionary was built from
strong_level_of(group, index, order) ==
    LET total_touches == total_touches_of(group)
        total_weighted_touches == total_weighted_touches_of(group)
        final_level == RDiv(weighted_sum_of(group), R(total_weighted_touches))
        types == [i \in 1..Len(group) |-> group[i].type]
        timeframes == {group[i].timeframe : i \in 1..Len(group)}
    IN  [level |-> final_level,
         type |-> final_type_of(types, order),
         touches |-> total_touches,
         weighted_touches |-> total_weighted_touches,
         timeframes |-> timeframes,
         timeframe_count |-> Cardinality(timeframes),
         tolerance_info |-> [tolerance_used |-> get_tolerance_for_price(final_level),
                             tolerance_mode |-> tolerance_mode,
                             tolerance_percentage |-> RMul(tolerance_percentage, R(100))],
         source_levels |-> Len(group),
         source_group |-> index]

\* a plausible slip: the weighted count is compared with min_touches
admitted_by_weighted(group) == total_weighted_touches_of(group) >= min_touches

\* the admission test of line 241
admitted(group) == total_touches_of(group) >= min_touches

\* the loop of lines 236-266 over grouped_levels[index..]
RECURSIVE strong_from(_, _, _)
strong_from(groups, index, order) ==
    IF index > Len(groups) THEN <<>>
    ELSE IF admitted(groups[index])
         THEN <<strong_level_of(groups[index], index, order)>>
              \o strong_from(groups, index + 1, order)
         ELSE strong_from(groups, index + 1, order)

\* the sort key of line 268 and its tuple comparison
KeyLt(a, b) ==
    \/ a.timeframe_count < b.timeframe_count
    \/ /\ a.timeframe_count = b.timeframe_count
       /\ a.weighted_touches < b.weighted_touches

\* a plausible slip: reverse=True is left out, the sort is ascending
RECURSIVE InsertAscKey(_, _)
InsertAscKey(x, s) ==
    IF s = <<>> THEN <<x>>
    ELSE IF KeyLt(x, Head(s)) THEN <<x>> \o s
    ELSE <<Head(s)>> \o InsertAscKey(x, Tail(s))

RECURSIVE SortedStrongAscending(_)
SortedStrongAscending(s) ==
    IF s = <<>> THEN <<>>
    ELSE InsertAscKey(s[Len(s)], SortedStrongAscending(SubSeq(s, 1, Len(s) - 1)))

\* strong_levels.sort(key=..., reverse=True), line 268: descending, equal
\* keys keep their order
RECURSIVE InsertDesc(_, _)
InsertDesc(x, s) ==
    IF s = <<>> THEN <<x>>
    ELSE IF KeyLt(Head(s), x) THEN <<x>> \o s
    ELSE <<Head(s)>> \o InsertDesc(x, Tail(s))

RECURSIVE SortedStrong(_)
SortedStrong(s) ==
    IF s = <<>> THEN <<>>
    ELSE InsertDesc(s[Len(s)], SortedStrong(SubSeq(s, 1, Len(s) - 1)))

\* lines 236-269: the returned list for given groups and set iteration order
strong_levels_of(groups, order) == SortedStrong(strong_from(groups, 1, order))

(***************************************************************************)
(* combine_multi_timeframe_levels, lines 226-269, in its three stages.     *)
(***************************************************************************)
\* lines 230-232: one iteration of the loop over self.timeframe_data
find_levels ==
    /\ pc = "ready"
    /\ tf_done < Len(timeframe_data)
    /\ LET item == timeframe_data[tf_done + 1]
       IN  /\ all_levels' = all_levels \o find_levels_for_timeframe(item.tf, item.rows)
           /\ tol_log' = tol_log \cup series_tols(item.rows)
    /\ tf_done' = tf_done + 1
    /\ UNCHANGED <<timeframe_data, min_touches, tolerance_percentage, grouping_method,
                   tolerance_mode, current_price, base_tolerance, pc,
                   grouped_levels, strong_levels, input_prices, clusters, analysis>>

\* a plausible slip: the grouping call indented into the loop of lines
\* 229-231, so that it runs after the first timeframe
group_levels_in_loop ==
    /\ pc = "ready"
    /\ tf_done >= 1
    /\ grouped_levels' = group_similar_levels(all_levels)
    /\ tol_log' = tol_log \cup similar_groups(all_levels).tols
    /\ pc' = "grouped"
    /\ UNCHANGED <<timeframe_data, min_touches, tolerance_percentage, grouping_method,
                   tolerance_mode, current_price, base_tolerance, tf_done,
                   all_levels, strong_levels, input_prices, clusters, analysis>>

\* line 234, reached when the loop over the timeframes has ended
group_levels ==
    /\ pc = "ready"
    /\ tf_done = Len(timeframe_data)
    /\ grouped_levels' = group_similar_levels(all_levels)
    /\ tol_log' = tol_log \cup similar_groups(all_levels).tols
    /\ pc' = "grouped"
    /\ UNCHANGED <<timeframe_data, min_touches, tolerance_percentage, grouping_method,
                   tolerance_mode, current_price, base_tolerance, tf_done,
                   all_levels, strong_levels, input_prices, clusters, analysis>>

\* lines 236-269
rank_levels ==
    /\ pc = "grouped"
    /\ \E order \in SetOrders : strong_levels' = strong_levels_of(grouped_levels, order)
    /\ pc' = "done"
    /\ UNCHANGED <<timeframe_data, min_touches, tolerance_percentage, grouping_method,
                   tolerance_mode, current_price, base_tolerance, tf_done,
                   all_levels, grouped_levels, tol_log, input_prices, clusters, analysis>>

Next == prepare_data \/ find_levels \/ group_levels \/ rank_levels

Spec == Init /\ [][Next]_vars

(***************************************************************************)
(* The same finder constructed with arguments the specification calls an   *)
(* invalid configuration: __init__ (lines 14-27) stores what it is given.  *)
(***************************************************************************)
InvalidPctSet == {R(0), R(0 - 1)}
InvalidMinTouchesSet == {0}

InvalidInit ==
    /\ timeframe_data \in InputData
    /\ min_touches \in MinTouchesSet \cup InvalidMinTouchesSet
    /\ tolerance_percentage \in {RDiv(p, R(100)) : p \in PctSet \cup InvalidPctSet}
    /\ RLe(tolerance_percentage, R(0)) \/ min_touches < 1
    /\ grouping_method \in GroupingMethods
    /\ tolerance_mode \in ToleranceModes
    /\ current_price = None
    /\ base_tolerance = None
    /\ pc = "new"
    /\ tf_done = 0
    /\ all_levels = <<>>
    /\ grouped_levels = <<>>
    /\ strong_levels = <<>>
    /\ tol_log = {}
    /\ input_prices = <<>>
    /\ clusters = <<>>
    /\ analysis = NoAnalysis

SpecInvalid == InvalidInit /\ [][Next]_vars

(***************************************************************************)
(* group_similar_levels and the loop after it as functions of a list of    *)
(* raw levels: a finder built on one daily row is handed every list of up  *)
(* to MaxLevels raw levels, the empty list included.                       *)
(***************************************************************************)
MaxLevels == 2

CombineFrames == <<[tf |-> "1D", rows |-> <<[High |-> R(100), Low |-> R(100), Close |-> R(100)]>>]>>

\* raw levels as convert_groups_to_levels builds them from one-price groups
RawLevels ==
    {level_of_group(<<R(p)>>, t, tf, WeightOf(tf)) :
        p \in PriceSet, t \in LevelTypes, tf \in {"1D", "1H"}}

\* a 1D level at 150.00 and a 1H level at 150.01, two touches each
ScenarioLevels ==
    <<level_of_group(<<R(150), R(150)>>, "Resistance", "1D", WeightOf("1D")),
      level_of_group(<<RDiv(R(15001), R(100)), RDiv(R(15001), R(100))>>,
                     "Resistance", "1H", WeightOf("1H"))>>

LevelLists == UNION {[1..n -> RawLevels] : n \in 0..MaxLevels} \cup {ScenarioLevels}

CombineInit ==
    /\ timeframe_data = CombineFrames
    /\ min_touches \in MinTouchesSet
    /\ tolerance_percentage = RDiv(R(1), R(100))
    /\ grouping_method = "conservative"
    /\ tolerance_mode \in ToleranceModes
    /\ current_price = R(100)
    /\ base_tolerance = base_tolerance_of(current_price, tolerance_percentage)
    /\ pc = "ready"
    /\ tf_done = Len(timeframe_data)
    /\ all_levels \in LevelLists
    /\ grouped_levels = <<>>
    /\ strong_levels = <<>>
    /\ tol_log = {}
    /\ input_prices = <<>>
    /\ clusters = <<>>
    /\ analysis = NoAnalysis

CombineNext == group_levels \/ rank_levels

SpecCombine == CombineInit /\ [][CombineNext]_vars

(***************************************************************************)
(* analyze_missing_levels, lines 293-327, called on a constructed finder   *)
(* (route, lines 1041-1052) or after the full analysis (lines 1067-1075),  *)
(* and the next request, which runs a finder with the suggested percentage.*)
(***************************************************************************)
\* the range bounds a request can carry
RangeBounds == {R(p) : p \in PriceSet}

\* df[df[price_type].between(start, end)][price_type].tolist(), line 304:
\* between is inclusive at both ends
in_range(rows, price_type, price_range_start, price_range_end) ==
    SelectSeq(Column(rows, price_type),
              LAMBDA v : RLe(price_range_start, v) /\ RLe(v, price_range_end))

\* lines 302-310: the timeframes in order, High before Low, rows in order
RECURSIVE prices_in_range_of(_, _, _)
prices_in_range_of(frames, price_range_start, price_range_end) ==
    IF frames = <<>> THEN <<>>
    ELSE LET found(price_type) ==
                 LET hit == in_range(frames[1].rows, price_type,
                                     price_range_start, price_range_end)
                 IN  [i \in 1..Len(hit) |->
                        [timeframe |-> frames[1].tf, type |-> price_type, price |-> hit[i]]]
         IN  found("High") \o found("Low")
             \o prices_in_range_of(Tail(frames), price_range_start, price_range_end)

\* sorted(list(set(prices))), line 315
RECURSIVE unique_sorted(_)
unique_sorted(S) ==
    IF S = {} THEN <<>>
    ELSE LET m == RMin(S) IN <<m>> \o unique_sorted(S \ {m})

\* a plausible slip: the range start taken for the midpoint
mid_range_start(price_range_start, price_range_end) == price_range_start

\* line 320
mid_range_price(price_range_start, price_range_end) ==
    RDiv(RAdd(price_range_start, price_range_end), R(2))

\* the dictionary analyze_missing_levels returns
analysis_of(price_range_start, price_range_end) ==
    LET found == prices_in_range_of(timeframe_data, price_range_start, price_range_end)
        prices == [i \in 1..Len(found) |-> found[i].price]
        unique_prices == unique_sorted(Range(prices))
        base == [NoAnalysis EXCEPT !.ran = TRUE,
                                   !.range_start = price_range_start,
                                   !.range_end = price_range_end,
                                   !.current_tolerance = base_tolerance,
                                   !.prices_in_range = found]
    IN  IF found # <<>> /\ Len(unique_prices) > 1
        THEN LET min_distance ==
                     RMin({RAbs(RSub(unique_prices[i + 1], unique_prices[i])) :
                              i \in 1..(Len(unique_prices) - 1)})
                 suggested_tolerance_pct ==
                     RMul(RDiv(min_distance,
                               mid_range_price(price_range_start, price_range_end)),
                          R(100))
             IN  [base EXCEPT !.has_suggestion = TRUE,
                              !.suggested_tolerance_percentage = suggested_tolerance_pct,
                              !.min_distance = min_distance,
                              !.unique_price_count = Len(unique_prices)]
        ELSE base

analyze_missing_levels ==
    /\ \/ pc = "ready" /\ tf_done = 0
       \/ pc = "done"
    /\ ~analysis.ran
    /\ \E price_range_start \in RangeBounds, price_range_end \in RangeBounds :
          analysis' = analysis_of(price_range_start, price_range_end)
    /\ UNCHANGED <<timeframe_data, min_touches, tolerance_percentage, grouping_method,
                   tolerance_mode, current_price, base_tolerance, pc, tf_done,
                   all_levels, grouped_levels, strong_levels, tol_log,
                   input_prices, clusters>>

\* the next request: the user follows the advice of the page (template,
\* lines 922-925), so a new finder is built on the same files (lines
\* 1059-1065) in level_price mode with the suggested percentage
apply_suggestion ==
    /\ pc \in {"ready", "done"}
    /\ analysis.has_suggestion
    /\ ~analysis.applied
    /\ tolerance_mode' = "level_price"
    /\ tolerance_percentage' = RDiv(analysis.suggested_tolerance_percentage, R(100))
    /\ analysis' = [analysis EXCEPT !.applied = TRUE]
    /\ pc' = "new"
    /\ tf_done' = 0
    /\ current_price' = None
    /\ base_tolerance' = None
    /\ all_levels' = <<>>
    /\ grouped_levels' = <<>>
    /\ strong_levels' = <<>>
    /\ tol_log' = {}
    /\ UNCHANGED <<timeframe_data, min_touches, grouping_method, input_prices, clusters>>

\* the constructor defaults of line 14, either grouping method
RangeInit ==
    /\ timeframe_data \in InputData
    /\ min_touches = 2
    /\ tolerance_percentage = RDiv(R(1), R(100))
    /\ grouping_method \in GroupingMethods
    /\ tolerance_mode = "current_price"
    /\ current_price = None
    /\ base_tolerance = None
    /\ pc = "new"
    /\ tf_done = 0
    /\ all_levels = <<>>
    /\ grouped_levels = <<>>
    /\ strong_levels = <<>>
    /\ tol_log = {}
    /\ input_prices = <<>>
    /\ clusters = <<>>
    /\ analysis = NoAnalysis

RangeNext ==
    \/ prepare_data
    \/ find_levels
    \/ group_levels
    \/ rank_levels
    \/ analyze_missing_levels
    \/ apply_suggestion

SpecRange == RangeInit /\ [][RangeNext]_vars

(***************************************************************************)
(* The finder with any integer for min_touches, values below 1 included    *)
(* (int(request.form.get('min_touches', 2)), line 1007, is not checked).   *)
(***************************************************************************)
AnyMinTouchesSet == {0 - 1, 0, 1, 2}

AnyMinTouchesInit ==
    /\ timeframe_data \in InputData
    /\ min_touches \in AnyMinTouchesSet
    /\ tolerance_percentage = RDiv(R(1), R(100))
    /\ grouping_method \in GroupingMethods
    /\ tolerance_mode = "current_price"
    /\ current_price = None
    /\ base_tolerance = None
    /\ pc = "new"
    /\ tf_done = 0
    /\ all_levels = <<>>
    /\ grouped_levels = <<>>
    /\ strong_levels = <<>>
    /\ tol_log = {}
    /\ input_prices = <<>>
    /\ clusters = <<>>
    /\ analysis = NoAnalysis

SpecMinTouches == AnyMinTouchesInit /\ [][Next]_vars

(***************************************************************************)
(* Claims about the combination result.                                    *)
(***************************************************************************)
Done == pc = "done"

\* the group of grouped_levels the i-th returned level was built from
GroupOf(i) == grouped_levels[strong_levels[i].source_group]
Members(group) == Range(group)
Prices(group) == {group[k].level : k \in 1..Len(group)}
Touches(group) == ISum([k \in 1..Len(group) |-> group[k].touches])

\* C1: no returned level has fewer touches than min_touches, the touches
\* being those of the raw levels merged into it; a group made of a single
\* one-observation level is never returned when min_touches is 2 or more
C1_ThresholdAdmission ==
    Done =>
        /\ \A i \in 1..Len(strong_levels) :
              /\ strong_levels[i].touches >= min_touches
              /\ Touches(GroupOf(i)) >= min_touches
        /\ \A g \in 1..Len(grouped_levels) :
              (min_touches >= 2 /\ Len(grouped_levels[g]) = 1
                                /\ grouped_levels[g][1].touches = 1)
              => \A i \in 1..Len(strong_levels) : strong_levels[i].source_group # g

\* a run with min_touches = 2 that drops a lone one-touch level and returns another
C1_Witness ==
    /\ Done
    /\ min_touches = 2
    /\ strong_levels # <<>>
    /\ \E g \in 1..Len(grouped_levels) :
          Len(grouped_levels[g]) = 1 /\ grouped_levels[g][1].touches = 1

\* the returned levels whose group holds the raw level
LevelsHolding(raw) ==
    {i \in 1..Len(strong_levels) : raw \in Members(GroupOf(i))}
GroupsHolding(raw) ==
    {g \in 1..Len(grouped_levels) : raw \in Members(grouped_levels[g])}

\* C2 as stated: touches of a returned level are the sum over its raw levels,
\* and every raw level belongs to exactly one returned level
C2_PartitionOfResult ==
    Done =>
        /\ \A i \in 1..Len(strong_levels) : strong_levels[i].touches = Touches(GroupOf(i))
        /\ \A k \in 1..Len(all_levels) : Cardinality(LevelsHolding(all_levels[k])) = 1

\* C2 amended: every raw level belongs to exactly one group of
\* group_similar_levels; the returned levels are built from distinct groups,
\* one for each group whose touches reach min_touches and none for the
\* others; touches of a returned level are the sum over its group.  So a raw
\* level belongs to exactly one returned level when its group is admitted
\* and to none when it is not.
C2_PartitionOfGroups ==
    Done =>
        /\ \A k \in 1..Len(all_levels) : Cardinality(GroupsHolding(all_levels[k])) = 1
        /\ \A g \in 1..Len(grouped_levels) : Members(grouped_levels[g]) \subseteq Range(all_levels)
        /\ ISum([g \in 1..Len(grouped_levels) |-> Len(grouped_levels[g])]) = Len(all_levels)
        /\ \A i \in 1..Len(strong_levels) :
              /\ strong_levels[i].touches = Touches(GroupOf(i))
              /\ strong_levels[i].source_levels = Len(GroupOf(i))
              /\ \A j \in 1..Len(strong_levels) :
                    strong_levels[j].source_group = strong_levels[i].source_group => i = j
        /\ \A g \in 1..Len(grouped_levels) :
              (Touches(grouped_levels[g]) >= min_touches)
              <=> (\E i \in 1..Len(strong_levels) : strong_levels[i].source_group = g)
        /\ \A k \in 1..Len(all_levels) :
              Cardinality(LevelsHolding(all_levels[k])) =
                  IF \E g \in GroupsHolding(all_levels[k]) :
                        Touches(grouped_levels[g]) >= min_touches
                  THEN 1 ELSE 0

\* a run that merges raw levels into one returned level and drops another group
C2_Witness ==
    /\ Done
    /\ \E i \in 1..Len(strong_levels) : Len(GroupOf(i)) >= 2
    /\ \E g \in 1..Len(grouped_levels) : Touches(grouped_levels[g]) < min_touches

C5_Deterministic ==
    Done => \A order \in SetOrders :
                strong_levels_of(grouped_levels, order) = strong_levels

\* C6: the returned list is in descending order of
\* (timeframe_count, weighted_touches)
C6_RankedDescending ==
    Done =>
        \A i \in 1..(Len(strong_levels) - 1) :
            \/ strong_levels[i].timeframe_count > strong_levels[i + 1].timeframe_count
            \/ /\ strong_levels[i].timeframe_count = strong_levels[i + 1].timeframe_count
               /\ strong_levels[i].weighted_touches >= strong_levels[i + 1].weighted_touches

\* the sort moved a higher-priced group in front of a lower-priced one that
\* spans fewer timeframes
C6_Witness ==
    /\ Done
    /\ \E i \in 1..(Len(strong_levels) - 1) :
          /\ strong_levels[i].source_group > strong_levels[i + 1].source_group
          /\ strong_levels[i].timeframe_count > strong_levels[i + 1].timeframe_count

\* C7: the kind of a returned level is the kind of the majority of its
\* members and, when both kinds occur equally often, the kind of the first
\* member in the price-ascending scan
KindsOf(group) == [k \in 1..Len(group) |-> group[k].type]

C7_MajorityKind ==
    Done =>
        \A i \in 1..Len(strong_levels) :
            LET kinds == KindsOf(GroupOf(i))
                r == Count(kinds, "Resistance")
                u == Count(kinds, "Support")
            IN  strong_levels[i].type =
                    IF r > u THEN "Resistance"
                    ELSE IF u > r THEN "Support"
                    ELSE kinds[1]

(***************************************************************************)
(* Claims about the tolerance model.                                       *)
(***************************************************************************)
Prepared == pc \in {"ready", "grouped", "done"}

\* last Close of the first timeframe, read from the prepared data
LastClose == LET primary == timeframe_data[1].rows IN primary[Len(primary)].Close
FixedTolerance == RMul(LastClose, tolerance_percentage)

SeriesEntries == {e \in tol_log : e.stage = "series"}
CombineEntries == {e \in tol_log : e.stage = "combine"}
ReportedTolerances ==
    {all_levels[k].tolerance_used : k \in 1..Len(all_levels)}
    \cup {strong_levels[i].tolerance_info.tolerance_used : i \in 1..Len(strong_levels)}

\* C8: in "current_price" mode every tolerance, in the per-series scans, in
\* the combination scan and in the reported levels, is the one constant
\* last Close of the first timeframe x tolerance_percentage
C8_FixedReference ==
    (Prepared /\ tolerance_mode = "current_price") =>
        /\ current_price = LastClose
        /\ base_tolerance = FixedTolerance
        /\ \A e \in tol_log : e.tol = FixedTolerance
        /\ \A t \in ReportedTolerances : t = FixedTolerance

\* both scans compared candidates of different prices against the constant,
\* the first timeframe having rows of different Close
C8_Witness ==
    /\ Done
    /\ tolerance_mode = "current_price"
    /\ SeriesEntries # {}
    /\ \E a, b \in CombineEntries : a.price # b.price
    /\ \E a, b \in Range(timeframe_data[1].rows) : a.Close # b.Close

\* C9: in "level_price" mode the tolerance for a value v is
\* v x tolerance_percentage: for the group mean handed over by a per-series
\* scan, for the candidate price in the combination scan and for the price
\* of every reported level; the reference price plays no part
C9_PerLevel ==
    (Prepared /\ tolerance_mode = "level_price") =>
        /\ \A e \in tol_log : e.ref # NaN /\ e.tol = RMul(e.ref, tolerance_percentage)
        /\ \A e \in CombineEntries : e.ref = e.price
        /\ \A k \in 1..Len(all_levels) :
              all_levels[k].tolerance_used =
                  RMul(all_levels[k].level, tolerance_percentage)
        /\ \A i \in 1..Len(strong_levels) :
              strong_levels[i].tolerance_info.tolerance_used =
                  RMul(strong_levels[i].level, tolerance_percentage)

\* both scans used tolerances that differ from each other and from the base tolerance
C9_Witness ==
    /\ Done
    /\ tolerance_mode = "level_price"
    /\ \E a \in SeriesEntries : \E b \in CombineEntries :
          a.tol # b.tol /\ a.tol # base_tolerance /\ b.tol # base_tolerance
    /\ strong_levels # <<>>

ClusterPriceSet == {R(100), R(101), R(102), R(104), NaN}
ClusterPcts == {R(1), R(2), R(3)}
ClusterReference == R(100)

\* the highs 100.00, 100.01, 100.02, 105.00 clustered at 0.02%
ScenarioHighs == <<R(100), RDiv(R(10001), R(100)), RDiv(R(10002), R(100)), R(105)>>
ScenarioPct == RDiv(R(2), R(100))

PriceLists == UNION {[1..m -> ClusterPriceSet] : m \in 1..MaxLen} \cup {ScenarioHighs}

\* the percentages a list is clustered with, as fractions
PctsFor(list) ==
    IF list = ScenarioHighs THEN {RDiv(ScenarioPct, R(100))}
    ELSE {RDiv(p, R(100)) : p \in ClusterPcts}

ClusterInit ==
    /\ input_prices \in PriceLists
    /\ tolerance_mode \in ToleranceModes
    /\ grouping_method \in GroupingMethods
    /\ tolerance_percentage \in PctsFor(input_prices)
    /\ current_price = ClusterReference
    /\ base_tolerance = base_tolerance_of(current_price, tolerance_percentage)
    /\ clusters = <<>>
    /\ pc = "cluster"
    /\ timeframe_data = <<>>
    /\ min_touches = 1
    /\ tf_done = 0
    /\ all_levels = <<>>
    /\ grouped_levels = <<>>
    /\ strong_levels = <<>>
    /\ tol_log = {}
    /\ analysis = NoAnalysis

\* the call of line 214 / 217 on input_prices
cluster_prices ==
    /\ pc = "cluster"
    /\ LET scan == IF grouping_method = "conservative"
                   THEN conservative_groups(input_prices)
                   ELSE aggressive_groups(input_prices)
           levels == IF grouping_method = "conservative"
                     THEN group_prices_conservative(input_prices, "Resistance", "1D", WeightOf("1D"))
                     ELSE group_prices_aggressive(input_prices, "Resistance", "1D", WeightOf("1D"))
       IN  /\ clusters' = Append(clusters, [method |-> grouping_method,
                                            percentage |-> tolerance_percentage,
                                            groups |-> scan.groups,
                                            levels |-> levels])
           /\ tol_log' = scan.tols
    /\ pc' = "clustered"
    /\ UNCHANGED <<timeframe_data, min_touches, tolerance_percentage, grouping_method,
                   tolerance_mode, current_price, base_tolerance, tf_done,
                   all_levels, grouped_levels, strong_levels, input_prices, analysis>>

\* __init__ and prepare_data of a second finder over the same data and mode
second_finder ==
    /\ pc = "clustered"
    /\ Len(clusters) = 1
    /\ grouping_method' \in GroupingMethods
    /\ tolerance_percentage' \in PctsFor(input_prices)
    /\ base_tolerance' = base_tolerance_of(current_price, tolerance_percentage')
    /\ pc' = "cluster"
    /\ UNCHANGED <<timeframe_data, min_touches, tolerance_mode, current_price, tf_done,
                   all_levels, grouped_levels, strong_levels, tol_log, input_prices,
                   clusters, analysis>>

ClusterNext == cluster_prices \/ second_finder

SpecCluster == ClusterInit /\ [][ClusterNext]_vars

\* C4: of two finders using the same strategy and mode on the same prices,
\* the one with the larger tolerance percentage emits no more clusters
C4_MonotonicTolerance ==
    \A i, j \in 1..Len(clusters) :
        (/\ clusters[i].method = clusters[j].method
         /\ RLe(clusters[i].percentage, clusters[j].percentage))
        => Len(clusters[j].groups) <= Len(clusters[i].groups)

\* the larger percentage merges strictly more, for either strategy
C4_Witness ==
    /\ Len(clusters) = 2
    /\ clusters[1].method = clusters[2].method
    /\ RLt(clusters[1].percentage, clusters[2].percentage)
    /\ Len(clusters[2].groups) < Len(clusters[1].groups)
    /\ Len(clusters[2].groups) >= 2

(***************************************************************************)
(* Claims about error handling.                                            *)
(***************************************************************************)
\* a timeframe without usable rows (the frames hold only usable rows once
\* prepare_data has run)
EmptyAt(i) == DropNa(timeframe_data[i].rows) = <<>>

\* what the specification calls an invalid configuration
ConfigInvalid ==
    \/ RLe(tolerance_percentage, R(0))
    \/ min_touches < 1
    \/ EmptyAt(1)

\* C11: a finder with an invalid configuration never gets past its
\* constructor: no clustering step runs and no level list is produced
C11_InvalidFailsFast ==
    ConfigInvalid =>
        /\ pc \in {"new", "error"}
        /\ all_levels = <<>>
        /\ strong_levels = <<>>

\* the raw levels of a list of timeframes, in the order of the loop at
\* lines 229-231
RECURSIVE levels_of_frames(_)
levels_of_frames(frames) ==
    IF frames = <<>> THEN <<>>
    ELSE find_levels_for_timeframe(frames[1].tf, frames[1].rows)
         \o levels_of_frames(Tail(frames))

\* the timeframes with at least one usable row, in their order
RemainingFrames == SelectSeq(timeframe_data, LAMBDA item : DropNa(item.rows) # <<>>)

\* C12: a timeframe without usable rows, the first one included, raises no
\* error, and the result is the one computed from the remaining timeframes
C12_EmptySeriesSoft ==
    (\E i \in 1..Len(timeframe_data) : EmptyAt(i)) =>
        /\ pc # "error"
        /\ Done => \E order \in SetOrders :
                     strong_levels =
                         strong_levels_of(group_similar_levels(levels_of_frames(RemainingFrames)), order)

\* what the code does keep: a timeframe after the first without usable rows
\* is skipped (line 198) and the result is that of the remaining timeframes
LaterEmptySoft ==
    (~EmptyAt(1) /\ \E i \in 2..Len(timeframe_data) : EmptyAt(i)) =>
        /\ pc # "error"
        /\ Done => \E order \in SetOrders :
                     strong_levels =
                         strong_levels_of(group_similar_levels(levels_of_frames(RemainingFrames)), order)

\* C13: on an empty list of raw levels the combination raises nothing and
\* returns the empty list: no group is formed and no level is reported
C13_EmptyCombination ==
    all_levels = <<>> =>
        /\ pc # "error"
        /\ pc \in {"grouped", "done"} => grouped_levels = <<>>
        /\ Done => strong_levels = <<>>

C13_Witness ==
    /\ Done
    /\ all_levels = <<>>
    /\ grouped_levels = <<>>
    /\ strong_levels = <<>>

(***************************************************************************)
(* Claims about the raw levels of one series.                              *)
(***************************************************************************)
\* the weight table of the specification
TableWeight(label) ==
    CASE label = "1D" -> 3
      [] label = "4H" -> 2
      [] label = "1H" -> 1
      [] OTHER -> 1

\* C14: every raw level carries the weight of its timeframe label (3 for
\* 1D, 2 for 4H, 1 for 1H and for any other label) and its weighted touches
\* are its touches times that weight
C14_TimeframeWeights ==
    \A i \in 1..Len(all_levels) :
        /\ all_levels[i].weight = TableWeight(all_levels[i].timeframe)
        /\ all_levels[i].weighted_touches = all_levels[i].touches * all_levels[i].weight

C14_Witness ==
    /\ \E i \in 1..Len(all_levels) :
          /\ all_levels[i].timeframe = "4H"
          /\ all_levels[i].touches = 1
          /\ all_levels[i].weighted_touches = 2
    /\ \E i \in 1..Len(all_levels) :
          /\ all_levels[i].timeframe = "1D"
          /\ all_levels[i].weighted_touches = 3

(***************************************************************************)
(* Claims about the range diagnostics.                                     *)
(***************************************************************************)
\* the distinct High and Low values of all timeframes inside the analysed range
InRangeValues ==
    {v \in UNION {Range(Column(timeframe_data[i].rows, "High"))
                  \cup Range(Column(timeframe_data[i].rows, "Low")) :
                      i \in 1..Len(timeframe_data)} :
        RLe(analysis.range_start, v) /\ RLe(v, analysis.range_end)}

\* the gaps between neighbours among the distinct in-range values
ConsecutiveGaps ==
    {RSub(b, a) : <<a, b>> \in
        {pr \in InRangeValues \X InRangeValues :
            /\ RLt(pr[1], pr[2])
            /\ ~\E c \in InRangeValues : RLt(pr[1], c) /\ RLt(c, pr[2])}}

\* C15: with at least two distinct in-range values the reported minimum gap
\* is the smallest gap between neighbouring distinct values and the
\* suggestion is minGap / ((start + end) / 2) x 100; with fewer than two
\* there is neither a suggestion nor a minimum gap
C15_RangeDiagnostics ==
    analysis.ran =>
        IF Cardinality(InRangeValues) >= 2
        THEN /\ analysis.has_suggestion
             /\ analysis.min_distance \in ConsecutiveGaps
             /\ \A g \in ConsecutiveGaps : RLe(analysis.min_distance, g)
             /\ analysis.suggested_tolerance_percentage =
                    RDiv(RMul(analysis.min_distance, R(200)),
                         RAdd(analysis.range_start, analysis.range_end))
        ELSE /\ ~analysis.has_suggestion
             /\ analysis.min_distance = NaN
             /\ analysis.suggested_tolerance_percentage = NaN

C15_Witness ==
    /\ analysis.ran
    /\ Cardinality(InRangeValues) = 3
    /\ analysis.has_suggestion
    /\ analysis.min_distance = R(1)
    /\ analysis.range_start = R(100)
    /\ analysis.range_end = R(103)

\* C16: once the suggested percentage has been applied in level_price mode
\* and the series are clustered again, every closest pair of distinct
\* in-range values of one series lies in one raw level of that series
C16_SuggestionMergesClosestPair ==
    (analysis.applied /\ pc \in {"grouped", "done"}) =>
        \A i \in 1..Len(timeframe_data) : \A price_type \in {"High", "Low"} :
            LET hit == Range(in_range(timeframe_data[i].rows, price_type,
                                      analysis.range_start, analysis.range_end))
                level_type == IF price_type = "High" THEN "Resistance" ELSE "Support"
            IN  \A a \in hit, b \in hit :
                    (RLt(a, b) /\ RSub(b, a) = analysis.min_distance) =>
                        \E k \in 1..Len(all_levels) :
                            /\ all_levels[k].timeframe = timeframe_data[i].tf
                            /\ all_levels[k].type = level_type
                            /\ {a, b} \subseteq Range(all_levels[k].original_prices)

(***************************************************************************)
(* Claims about the clustering of one price list.                          *)
(***************************************************************************)
\* C17: of two finders with the same tolerance configuration on the same
\* prices, the aggressive one emits no more clusters than the conservative one
C17_AggressiveMergesMore ==
    \A i, j \in 1..Len(clusters) :
        (/\ clusters[i].method = "aggressive"
         /\ clusters[j].method = "conservative"
         /\ clusters[i].percentage = clusters[j].percentage)
        => Len(clusters[i].groups) <= Len(clusters[j].groups)

\* what the two scans do instead: the conservative one never emits more
ConservativeMergesMore ==
    \A i, j \in 1..Len(clusters) :
        (/\ clusters[i].method = "aggressive"
         /\ clusters[j].method = "conservative"
         /\ clusters[i].percentage = clusters[j].percentage)
        => Len(clusters[j].groups) <= Len(clusters[i].groups)

(***************************************************************************)
(* Claims relating the two scans.                                          *)
(***************************************************************************)
\* C18: whatever the mode string, the per-series scans and the combination
\* scan follow one rule: either every threshold is the constant base
\* tolerance, or every threshold is the tested value x tolerance_percentage
C18_SameToleranceModel ==
    Prepared =>
        \/ \A e \in tol_log : e.tol = base_tolerance
        \/ \A e \in tol_log : e.ref # NaN /\ e.tol = RMul(e.ref, tolerance_percentage)

(***************************************************************************)
(* Claims about the groups of one scan.                                    *)
(***************************************************************************)
\* the members of a list of groups, group after group
RECURSIVE Flatten(_)
Flatten(groups) == IF groups = <<>> THEN <<>> ELSE Head(groups) \o Flatten(Tail(groups))

Occurrences(s, v) == Cardinality({k \in 1..Len(s) : s[k] = v})

\* C19: for either strategy the groups of a list with a non-missing price
\* are non-empty runs whose concatenation is the non-missing input in
\* ascending order; every group, one-price groups included, yields one
\* level whose touches are its member count, and the touches sum to the
\* number of non-missing inputs
C19_ClustersPartitionInput ==
    \A i \in 1..Len(clusters) :
        LET groups == clusters[i].groups
            levels == clusters[i].levels
            flat == Flatten(groups)
        IN  NotMissing(input_prices) # <<>> =>
                /\ groups # <<>>
                /\ \A k \in 1..Len(groups) : groups[k] # <<>>
                /\ \A k \in 1..(Len(flat) - 1) : RLe(flat[k], flat[k + 1])
                /\ \A v \in Range(input_prices) \cup Range(flat) :
                      Occurrences(flat, v) = IF v = NaN THEN 0 ELSE Occurrences(input_prices, v)
                /\ Len(levels) = Len(groups)
                /\ \A k \in 1..Len(levels) :
                      /\ levels[k].touches = Len(groups[k])
                      /\ levels[k].original_prices = groups[k]
                /\ ISum([k \in 1..Len(levels) |-> levels[k].touches])
                       = Cardinality({k \in 1..Len(input_prices) : input_prices[k] # NaN})

\* a list with a missing value, split into a group of two members and a
\* one-price group
C19_Witness ==
    /\ Len(clusters) >= 1
    /\ \E k \in 1..Len(input_prices) : input_prices[k] = NaN
    /\ Len(clusters[1].groups) = 2
    /\ Len(clusters[1].groups[1]) = 2
    /\ Len(clusters[1].groups[2]) = 1
    /\ clusters[1].levels[2].touches = 1

\* the tolerance a conservative scan applies to a group, by mode
GroupTolerance(group, percentage) ==
    IF tolerance_mode = "level_price"
    THEN RMul(RDiv(RSum(group), R(Len(group))), percentage)
    ELSE RMul(ClusterReference, percentage)

MinDistance(price, group) ==
    CHOOSE d \in {RAbs(RSub(price, group[k])) : k \in 1..Len(group)} :
        \A k \in 1..Len(group) : RLe(d, RAbs(RSub(price, group[k])))

\* C20: in a conservative scan, in either of the two modes, a price joined
\* the group before it iff its minimum distance to the prices already in
\* the group was within the tolerance (of the group mean in level_price
\* mode, the constant reference tolerance in current_price mode), and the
\* price that was not admitted opened the next group; the highs 100.00,
\* 100.01, 100.02, 105.00 at 0.02% in level_price mode give a cluster of
\* three touches and a cluster of one
C20_ConservativeAdmission ==
    \A i \in 1..Len(clusters) :
        (clusters[i].method = "conservative"
         /\ tolerance_mode \in {"current_price", "level_price"}) =>
            LET groups == clusters[i].groups
                pct == clusters[i].percentage
            IN  /\ \A k \in 1..Len(groups) : \A m \in 2..Len(groups[k]) :
                      LET before == SubSeq(groups[k], 1, m - 1)
                      IN  RLe(MinDistance(groups[k][m], before), GroupTolerance(before, pct))
                /\ \A k \in 1..(Len(groups) - 1) :
                      ~RLe(MinDistance(groups[k + 1][1], groups[k]),
                           GroupTolerance(groups[k], pct))
                /\ (input_prices = ScenarioHighs /\ tolerance_mode = "level_price") =>
                      /\ Len(clusters[i].levels) = 2
                      /\ clusters[i].levels[1].touches = 3
                      /\ clusters[i].levels[2].touches = 1

C20_Witness ==
    /\ Len(clusters) >= 1
    /\ clusters[1].method = "conservative"
    /\ tolerance_mode = "level_price"
    /\ input_prices = ScenarioHighs
    /\ clusters[1].groups = <<SubSeq(ScenarioHighs, 1, 3), <<R(105)>> >>
    /\ clusters[1].levels[1].touches = 3

\* the running arithmetic mean of a group
Centroid(group) == RDiv(RSum(group), R(Len(group)))

\* C21: in an aggressive scan a price joined the group before it iff its
\* distance to the mean of the prices already in the group was within the
\* tolerance (of that mean in level_price mode, the constant reference
\* tolerance in any other mode), and the price that was not admitted opened
\* the next group; on the highs 100.00, 100.01, 100.02, 105.00 at 0.02% in
\* level_price mode the groups are those of the conservative scan
C21_AggressiveAdmission ==
    \A i \in 1..Len(clusters) :
        clusters[i].method = "aggressive" =>
            LET groups == clusters[i].groups
                pct == clusters[i].percentage
            IN  /\ \A k \in 1..Len(groups) : \A m \in 2..Len(groups[k]) :
                      LET before == SubSeq(groups[k], 1, m - 1)
                      IN  RLe(RAbs(RSub(groups[k][m], Centroid(before))),
                              GroupTolerance(before, pct))
                /\ \A k \in 1..(Len(groups) - 1) :
                      ~RLe(RAbs(RSub(groups[k + 1][1], Centroid(groups[k]))),
                           GroupTolerance(groups[k], pct))
                /\ (input_prices = ScenarioHighs /\ tolerance_mode = "level_price") =>
                      /\ groups = <<SubSeq(ScenarioHighs, 1, 3), <<R(105)>> >>
                      /\ \A j \in 1..Len(clusters) :
                            clusters[j].method = "conservative" =>
                                /\ clusters[j].groups = groups
                                /\ clusters[j].levels = clusters[i].levels

C21_Witness ==
    /\ Len(clusters) = 2
    /\ clusters[1].method = "conservative"
    /\ clusters[2].method = "aggressive"
    /\ tolerance_mode = "level_price"
    /\ input_prices = ScenarioHighs
    /\ clusters[2].groups = clusters[1].groups
    /\ Len(clusters[2].groups[1]) = 3
    /\ Len(clusters[2].groups[2]) = 1

(***************************************************************************)
(* Claims about the groups of the combination.                             *)
(***************************************************************************)
Grouped == pc \in {"grouped", "done"}

\* the tolerance the finder computes for a price
CandidateTolerance(price) ==
    IF tolerance_mode = "current_price" THEN FixedTolerance
    ELSE RMul(price, tolerance_percentage)

\* some member of the group lies within the candidate's tolerance of it
NearSomeMember(candidate, group) ==
    \E k \in 1..Len(group) :
        RLe(RAbs(RSub(candidate.level, group[k].level)), CandidateTolerance(candidate.level))

\* C22: the groups of the combination are runs of the raw levels in
\* ascending price order; a raw level joined the group before it iff some
\* member already in the group was within the tolerance computed for the
\* candidate's own price, and the level that was not admitted opened the
\* next group, whichever per-series strategy is configured
C22_CombinationAdmission ==
    Grouped =>
        LET flat == Flatten(grouped_levels)
        IN  /\ \A k \in 1..(Len(flat) - 1) : RLe(flat[k].level, flat[k + 1].level)
            /\ \A k \in 1..Len(grouped_levels) : \A m \in 2..Len(grouped_levels[k]) :
                  NearSomeMember(grouped_levels[k][m], SubSeq(grouped_levels[k], 1, m - 1))
            /\ \A k \in 1..(Len(grouped_levels) - 1) :
                  ~NearSomeMember(grouped_levels[k + 1][1], grouped_levels[k])

\* under the aggressive strategy a level joined a group through its nearest
\* member although the first member was out of its tolerance
C22_Witness ==
    /\ Grouped
    /\ grouping_method = "aggressive"
    /\ \E k \in 1..Len(grouped_levels) :
          LET g == grouped_levels[k]
          IN  /\ Len(g) >= 3
              /\ ~RLe(RSub(g[Len(g)].level, g[1].level), CandidateTolerance(g[Len(g)].level))

\* C23: the price of a combined level is the sum of price x weighted
\* touches over the raw levels of its group divided by the group's total
\* weighted touches; a 1D level at 150.00 (2 touches, weighted 6) merged
\* with a 1H level at 150.01 (2 touches, weighted 2) gives price 150.0025,
\* 4 touches and 2 timeframes
C23_WeightedAveragePrice ==
    Done =>
        /\ \A i \in 1..Len(strong_levels) :
              LET group == GroupOf(i)
                  weighted == ISum([k \in 1..Len(group) |-> group[k].touches * group[k].weight])
              IN  /\ strong_levels[i].weighted_touches = weighted
                  /\ RMul(strong_levels[i].level, R(weighted)) =
                         RSum([k \in 1..Len(group) |->
                                 RMul(group[k].level, R(group[k].touches * group[k].weight))])
        /\ all_levels = ScenarioLevels =>
              /\ Len(strong_levels) = 1
              /\ strong_levels[1].level = RDiv(R(1500025), R(10000))
              /\ strong_levels[1].touches = 4
              /\ strong_levels[1].timeframe_count = 2

C23_Witness ==
    /\ Done
    /\ all_levels = ScenarioLevels
    /\ all_levels[1].weighted_touches = 6
    /\ all_levels[2].weighted_touches = 2
    /\ Len(strong_levels) = 1
    /\ strong_levels[1].weighted_touches = 8
    /\ strong_levels[1].level = RDiv(R(1500025), R(10000))

(***************************************************************************)
(* Claims about the representative price of a raw level.                   *)
(***************************************************************************)
\* the median of an ascending list: the middle member, or the mean of the
\* two middle members
MiddleOf(group) ==
    LET n == Len(group)
    IN  IF n % 2 = 1 THEN group[(n + 1) \div 2]
        ELSE RDiv(RAdd(group[n \div 2], group[(n \div 2) + 1]), R(2))

\* C24: the price of a raw level is the median of its member prices when
\* the cluster has three or more members and their arithmetic mean when it
\* has one or two
C24_RepresentativePrice ==
    \A i \in 1..Len(clusters) : \A k \in 1..Len(clusters[i].levels) :
        LET group == clusters[i].groups[k]
            level == clusters[i].levels[k]
        IN  /\ level.original_prices = group
            /\ level.level = IF Len(group) >= 3 THEN MiddleOf(group) ELSE Centroid(group)

\* a cluster of three or more members whose median is not its mean, next
\* to a cluster of two members of different price
C24_Witness ==
    /\ Len(clusters) >= 1
    /\ \E k \in 1..Len(clusters[1].levels) :
          /\ Len(clusters[1].groups[k]) >= 3
          /\ clusters[1].levels[k].level # Centroid(clusters[1].groups[k])
    /\ \E i \in 1..Len(clusters) : \E k \in 1..Len(clusters[i].levels) :
          LET g == clusters[i].groups[k]
          IN  Len(g) = 2 /\ g[1] # g[2]

(***************************************************************************)
(* Claims about the order of the steps.                                    *)
(***************************************************************************)
\* C25: grouping starts only when every supplied timeframe has been
\* clustered; the list it groups holds the raw levels of all timeframes,
\* and once grouping has begun the list does not change
C25_GroupingAfterAllTimeframes ==
    /\ [](Grouped =>
            /\ tf_done = Len(timeframe_data)
            /\ all_levels = levels_of_frames(timeframe_data)
            /\ grouped_levels = group_similar_levels(all_levels))
    /\ [][(Grouped \/ Grouped') => (all_levels' = all_levels /\ tf_done' = tf_done)]_vars

\* two timeframes, both with raw levels in the grouped list
C25_Witness ==
    /\ Grouped
    /\ Len(timeframe_data) = 2
    /\ \E i, j \in 1..Len(all_levels) :
          /\ all_levels[i].timeframe = timeframe_data[1].tf
          /\ all_levels[j].timeframe = timeframe_data[2].tf
    /\ \E k \in 1..Len(grouped_levels) : Len(grouped_levels[k]) >= 2

(***************************************************************************)
(* Claims about the conservative scan with a constant tolerance.           *)
(***************************************************************************)
\* C26: in a conservative scan in current_price mode with tolerance
\* t >= 0, two neighbours of the ascending input are in the same cluster
\* iff their gap is at most t: neighbours within a cluster are at most t
\* apart, the last price of a cluster and the first of the next are more
\* than t apart, and no price value occurs in two clusters
C26_FixedGapClusters ==
    \A i \in 1..Len(clusters) :
        LET groups == clusters[i].groups
            t == RMul(ClusterReference, clusters[i].percentage)
        IN  (/\ clusters[i].method = "conservative"
             /\ tolerance_mode = "current_price"
             /\ RLe(R(0), t)) =>
                /\ Flatten(groups) = SortedPrices(NotMissing(input_prices))
                /\ \A k \in 1..Len(groups) : \A m \in 1..(Len(groups[k]) - 1) :
                      RLe(RSub(groups[k][m + 1], groups[k][m]), t)
                /\ \A k \in 1..(Len(groups) - 1) :
                      RLt(t, RSub(groups[k + 1][1], groups[k][Len(groups[k])]))
                /\ \A k, l \in 1..Len(groups) :
                      k # l => Range(groups[k]) \cap Range(groups[l]) = {}

\* a cluster chained over more than t from first to last member, next to
\* another cluster
C26_Witness ==
    /\ Len(clusters) >= 1
    /\ clusters[1].method = "conservative"
    /\ tolerance_mode = "current_price"
    /\ Len(clusters[1].groups) = 2
    /\ LET g == clusters[1].groups[1]
           t == RMul(ClusterReference, clusters[1].percentage)
       IN  /\ Len(g) = 3
           /\ RLt(t, RSub(g[3], g[1]))

(***************************************************************************)
(* Claims about the divisor of the weighted average.                       *)
(***************************************************************************)
\* C27: the divisor of the weighted average is never zero: every raw level
\* has at least one touch and a weight of at least 1, every group of the
\* combination is non-empty, so every group's total weighted touches are at
\* least its total touches and these at least 1, whatever min_touches is,
\* values below 1 included, where every group becomes a combined level
C27_DivisorNeverZero ==
    /\ \A k \in 1..Len(all_levels) :
          /\ all_levels[k].touches >= 1
          /\ all_levels[k].weight >= 1
          /\ all_levels[k].weighted_touches >= all_levels[k].touches
    /\ Grouped =>
          \A k \in 1..Len(grouped_levels) :
              LET group == grouped_levels[k]
                  touches == ISum([m \in 1..Len(group) |-> group[m].touches])
                  weighted == ISum([m \in 1..Len(group) |-> group[m].weighted_touches])
              IN  /\ group # <<>>
                  /\ touches >= 1
                  /\ weighted >= touches
    /\ Done =>
          /\ \A i \in 1..Len(strong_levels) :
                /\ strong_levels[i].weighted_touches >= 1
                /\ strong_levels[i].level # NaN
          /\ min_touches <= 1 => Len(strong_levels) = Len(grouped_levels)

\* a run with min_touches below 1 in which a group of a single one-touch
\* level of weight 1 became a combined level
C27_Witness ==
    /\ Done
    /\ min_touches < 1
    /\ Len(strong_levels) >= 2
    /\ \E i \in 1..Len(strong_levels) :
          /\ strong_levels[i].weighted_touches = 1
          /\ strong_levels[i].source_levels = 1

====
